---- MODULE Spec2Model ----
(***************************************************************************)
(* Model of MessengerClient (src/Project_2/src/messenger.py): certificate *)
(* store, per-peer double-ratchet sessions, send_message and               *)
(* receive_message.  The primitive library (lib.py) is modelled as a term  *)
(* algebra: a key is the term that names how it was derived, a ciphertext  *)
(* is the pair (body, tag) of the terms it was computed from.              *)
(***************************************************************************)
EXTENDS Integers, Sequences, FiniteSets, TLC

(* ---------------------------- bounds ---------------------------------- *)
\* messages one client sends to one peer
MaxSend == 3
\* messages the peer of a client under attack sends to it
MaxPeerSend == 1
\* largest their_message_n a session is driven to
MaxRecv == 0
\* hash-ratchet steps taken on one receiving chain
MaxChain == 1
\* key pairs generate_eg hands out to one client
MaxKeys == 4
\* a receiving DH ratchet runs while its client drew fewer salts than this
MaxSalts == 5
\* key derivations the holder of a chain key applies to it, one after another
MaxDerive == 3

Clients == {"alice", "bob"}
\* usernames: the clients' and that of a user who runs no client here
Names == Clients \cup {"carol"}
Plaintexts == {"hello", "hi"}
\* what a client says
PlaintextsOf(c) == IF c = "alice" THEN {"hello"} ELSE {"hi"}

(* ------------------------ primitive library --------------------------- *)
\* Python's None, as a key-shaped term
None == <<"None">>

\* the key pair number i: its private and its public half
PrivateKey(i) == <<"priv", i>>
PublicKey(i) == <<"pub", i>>
KeyPair(i) == [private |-> PrivateKey(i), public |-> PublicKey(i)]

\* key pairs held outside the clients
CAKeyId == 1
GovKeyId == 2
MalloryKeyId == GovKeyId + 1
CarolKeyId == MalloryKeyId + 1
RenewedKeyId == CarolKeyId + 1
\* first key pair number of a client: clients draw from disjoint ranges
KeyBase(c) == IF c = "alice" THEN 10 ELSE 20

\* compute_dh(priv, pub): DH(a, B) = DH(b, A)
compute_dh(priv, pub) ==
    IF priv[2] <= pub[2] THEN <<"dh", priv[2], pub[2]>>
                         ELSE <<"dh", pub[2], priv[2]>>

\* hkdf(ikm, salt, info): two derived keys
hkdf(ikm, salt, info) ==
    << <<"hkdf", ikm, salt, info, 1>>, <<"hkdf", ikm, salt, info, 2>> >>

hmac_to_hmac_key(key, label) == <<"hmac", key, label>>
hmac_to_aes_key(key, label) == <<"hmac", key, label>>

gov_encryption_data_str == "AES-generation"

\* encrypt_with_gcm(key, plaintext, iv, aad): (ciphertext bytes, tag)
encrypt_with_gcm(key, plaintext, iv, aad) ==
    << [key |-> key, iv |-> iv, pt |-> plaintext],
       [key |-> key, iv |-> iv, pt |-> plaintext, aad |-> aad] >>

\* decrypt_with_gcm succeeds when the tag verifies under (key, iv, aad)
gcm_authentic(key, ciphertext, iv, aad) ==
    ciphertext[2] = [key |-> key, iv |-> iv, pt |-> ciphertext[1].pt, aad |-> aad]
gcm_plaintext(ciphertext) == ciphertext[1].pt

\* ECDSA: a signature names its signing key pair and the signed text
sign_with_ecdsa(keyId, message) == <<"sig", keyId, message>>
verify_with_ecdsa(pub, message, signature) ==
    /\ pub = PublicKey(signature[2])
    /\ signature[3] = message

\* str(certificate): the dict printed in insertion order
StrCert(certificate) == <<certificate.username, certificate.public_key>>

\* str(header): the dict printed in insertion order
StrHeader(header) ==
    << header.dh_public_key, header.prev_chain_length, header.message_n,
       header.receiver_iv, header.v_gov, header.c_gov, header.iv_gov >>

(* ----------------------------- state ---------------------------------- *)
VARIABLES
    my_keys,         \* my_keys[c]: identity key pair of client c, or NoKeys
    my_certificate,  \* my_certificate[c]: own certificate, or NoCert
    certs,           \* certs[c]: dict username -> accepted certificate
    conns,           \* conns[c]: dict peer name -> session
    keys_drawn,      \* keys_drawn[c]: key pairs generate_eg gave to c
    salts_drawn,     \* salts_drawn[c]: values gen_random_salt gave to c
    delivered,       \* delivered[c][p]: messages of p handed to c in sending order
    clean,           \* clean[c][p]: c was handed nothing but those, each once
    sent,            \* sent[a][b]: messages send_message of a returned for b, each
                     \* with its plaintext, the delivered[a][b] of that moment and
                     \* the number of messages of b that a had decoded by then
    accepted,        \* accepted[c][p]: messages receive_message of c decoded
    lastOp,          \* the last call and its outcome
    calls            \* a send_message and a receive_message in flight at once:
                     \* the line each one is at and the locals it holds

vars == <<my_keys, my_certificate, certs, conns, keys_drawn, salts_drawn, sent,
          delivered, clean, accepted, lastOp, calls>>

NoKeys == [private |-> None, public |-> None]
NoCert == [username |-> "", public_key |-> None]
EmptyDict == [x \in {} |-> None]

\* a call's record: op, client, name, error ("" when it returned), and the
\* call's inputs and results
Op(op, c, name, error, extra) ==
    [op |-> op, client |-> c, name |-> name, error |-> error, info |-> extra]
\* of a send_message or receive_message call: where the message handed in
\* came from (src) and whether in sending order, whether the call ran a DH
\* ratchet, and the plaintext handed in or returned
Info(src, inOrder, ratcheted, plaintext) ==
    [src |-> src, inOrder |-> inOrder, ratcheted |-> ratcheted, plaintext |-> plaintext]
NoInfo == Info("", FALSE, FALSE, "")
\* of a receive_message call: also the index and the DH key its header carried
ReceiveInfo(src, inOrder, ratcheted, plaintext, header) ==
    [ src |-> src, inOrder |-> inOrder, ratcheted |-> ratcheted,
      plaintext |-> plaintext, message_n |-> header.message_n,
      dh_public_key |-> header.dh_public_key ]

\* ca_public_key and gov_public_key of MessengerClient.__init__
\* no calls in flight
NoCalls ==
    [ client |-> "", name |-> "", spc |-> "idle", rpc |-> "idle", message |-> None,
      sdh |-> None, rdh |-> None, rkey |-> None, serial |-> {} ]

ca_public_key == PublicKey(CAKeyId)
gov_public_key == PublicKey(GovKeyId)

Init ==
    /\ my_keys = [c \in Clients |-> NoKeys]
    /\ my_certificate = [c \in Clients |-> NoCert]
    /\ certs = [c \in Clients |-> EmptyDict]
    /\ conns = [c \in Clients |-> EmptyDict]
    /\ keys_drawn = [c \in Clients |-> 0]
    /\ salts_drawn = [c \in Clients |-> 0]
    /\ delivered = [c \in Clients |-> [p \in Names |-> 0]]
    /\ clean = [c \in Clients |-> [p \in Names |-> TRUE]]
    /\ sent = [a \in Clients |-> [b \in Names |-> <<>>]]
    /\ accepted = [c \in Clients |-> [p \in Names |-> {}]]
    /\ lastOp = Op("init", "", "", "", NoInfo)
    /\ calls = NoCalls

\* generate_eg() for client c: a key pair nobody drew before
generate_eg(c) == KeyPair(KeyBase(c) + keys_drawn[c])

\* gen_random_salt() for client c: the k-th value of a call, none drawn before
gen_random_salt(c, k) == <<"salt", c, salts_drawn[c] + k>>

(* ------------------------ certificate store --------------------------- *)
generate_certificate(c, username) ==
    /\ keys_drawn[c] < MaxKeys
    /\ my_keys[c] = NoKeys
    /\ LET keys == generate_eg(c)
           certificate == [username |-> username, public_key |-> keys.public]
       IN /\ my_keys' = [my_keys EXCEPT ![c] = keys]
          /\ my_certificate' = [my_certificate EXCEPT ![c] = certificate]
          /\ keys_drawn' = [keys_drawn EXCEPT ![c] = @ + 1]
          /\ lastOp' = Op("generate_certificate", c, username, "", NoInfo)
    /\ UNCHANGED <<certs, conns, salts_drawn, sent, delivered, clean, accepted, calls>>

\* certificates a caller can present: the clients' own and one that binds a
\* client's username to Mallory's key
OwnCertificates == {my_certificate[c] : c \in {d \in Clients : my_certificate[d] # NoCert}}
ForgedCertificates == {[username |-> u, public_key |-> PublicKey(MalloryKeyId)] : u \in Clients}
\* the authority signs the clients' own certificates only
Signatures ==
    {sign_with_ecdsa(CAKeyId, StrCert(cert)) : cert \in OwnCertificates}
    \cup {sign_with_ecdsa(MalloryKeyId, StrCert(cert)) : cert \in ForgedCertificates}

\* the signature is checked against the key named in it, not the authority's
CertificateValidAnySigner(certificate, signature) ==
    signature[3] = StrCert(certificate)

\* line 73: the signature verifies over str(certificate) under the CA key
CertificateValid(certificate, signature) ==
    verify_with_ecdsa(ca_public_key, StrCert(certificate), signature)

\* a variant that keeps the certificate already stored under the username
receive_certificate_first_wins(c, certificate, signature) ==
    LET valid == CertificateValid(certificate, signature)
    IN /\ IF ~valid
          THEN /\ lastOp' = Op("receive_certificate", c, certificate.username,
                               "Tampering detected!",
                               [certificate |-> certificate,
                                signature |-> signature])
               /\ UNCHANGED certs
          ELSE /\ certs' = [certs EXCEPT ![c] =
                               @ @@ (certificate.username :> certificate)]
               /\ lastOp' = Op("receive_certificate", c, certificate.username, "",
                               [certificate |-> certificate,
                                signature |-> signature])
       /\ UNCHANGED <<my_keys, my_certificate, conns, keys_drawn, salts_drawn, sent,
                       delivered, clean, accepted, calls>>

receive_certificate(c, certificate, signature) ==
    LET valid == CertificateValid(certificate, signature)
    IN /\ IF ~valid
          THEN /\ lastOp' = Op("receive_certificate", c, certificate.username,
                               "Tampering detected!",
                               [certificate |-> certificate,
                                signature |-> signature])
               /\ UNCHANGED certs
          ELSE /\ certs' = [certs EXCEPT ![c] =
                               (certificate.username :> certificate) @@ @]
               /\ lastOp' = Op("receive_certificate", c, certificate.username, "",
                               [certificate |-> certificate,
                                signature |-> signature])
       /\ UNCHANGED <<my_keys, my_certificate, conns, keys_drawn, salts_drawn, sent,
                       delivered, clean, accepted, calls>>

(* ------------------------------ sessions ------------------------------ *)
\* the chain key is handed on as it is
ratchet_sending_chain_kept(current_key) ==
    << hmac_to_hmac_key(current_key, "message_key"), current_key >>

\* a variant that hands out the two derived keys in the other order
ratchet_sending_chain_swapped(current_key) ==
    << hmac_to_hmac_key(current_key, "next_chain_key"),
       hmac_to_hmac_key(current_key, "message_key") >>

\* _ratchet_sending_chain / _ratchet_receiving_chain: (message_key, next_chain_key)
ratchet_sending_chain(current_key) ==
    << hmac_to_hmac_key(current_key, "message_key"),
       hmac_to_hmac_key(current_key, "next_chain_key") >>

ratchet_receiving_chain(current_key) ==
    << hmac_to_hmac_key(current_key, "message_key"),
       hmac_to_hmac_key(current_key, "next_chain_key") >>

\* a variant that takes the identity key pair as the ratchet key pair
initialize_sending_session_identity(c, recipient_name, salt) ==
    LET recipient_cert == certs[c][recipient_name]
        shared_secret == compute_dh(my_keys[c].private, recipient_cert.public_key)
    IN [ my_dh_private_key |-> my_keys[c].private,
         my_dh_public_key |-> my_keys[c].public,
         their_dh_public_key |-> None,
         root_key |-> shared_secret,
         sending_chain_key |-> hkdf(shared_secret, salt, "sending_chain_init")[1],
         receiving_chain_key |-> None,
         message_n |-> 0,
         their_message_n |-> -1,
         prev_chain_length |-> 0,
         need_ratchet |-> FALSE ]

\* _initialize_sending_session: the session stored in conns[recipient_name]
initialize_sending_session(c, recipient_name, salt) ==
    LET recipient_cert == certs[c][recipient_name]
        dh_keys == generate_eg(c)
        shared_secret == compute_dh(my_keys[c].private, recipient_cert.public_key)
    IN [ my_dh_private_key |-> dh_keys.private,
         my_dh_public_key |-> dh_keys.public,
         their_dh_public_key |-> None,
         root_key |-> shared_secret,
         sending_chain_key |-> hkdf(shared_secret, salt, "sending_chain_init")[1],
         receiving_chain_key |-> None,
         message_n |-> 0,
         their_message_n |-> -1,
         prev_chain_length |-> 0,
         need_ratchet |-> FALSE ]

\* _initialize_receiving_session: the session stored in conns[sender_name]
initialize_receiving_session(c, sender_name, header, salt) ==
    LET sender_cert == certs[c][sender_name]
        shared_secret == compute_dh(my_keys[c].private, sender_cert.public_key)
    IN [ my_dh_private_key |-> my_keys[c].private,
         my_dh_public_key |-> my_keys[c].public,
         their_dh_public_key |-> header.dh_public_key,
         root_key |-> shared_secret,
         sending_chain_key |-> None,
         receiving_chain_key |-> hkdf(shared_secret, salt, "receiving_chain_init")[2],
         message_n |-> 0,
         their_message_n |-> -1,
         prev_chain_length |-> 0,
         need_ratchet |-> FALSE ]

\* a variant that starts the new chain without recording the length of the old
ratchet_dh_sending_keys_unrecorded(c, conn, salt) ==
    LET dh_keys == generate_eg(c)
        dh_output == compute_dh(dh_keys.private, conn.their_dh_public_key)
        derived == hkdf(dh_output, salt, "dh_ratchet_sending")
    IN [ conn EXCEPT !.message_n = 0,
                     !.my_dh_private_key = dh_keys.private,
                     !.my_dh_public_key = dh_keys.public,
                     !.root_key = derived[1],
                     !.sending_chain_key = derived[2],
                     !.need_ratchet = FALSE ]

\* _ratchet_dh_sending_keys on session conn of client c
ratchet_dh_sending_keys(c, conn, salt) ==
    LET dh_keys == generate_eg(c)
        dh_output == compute_dh(dh_keys.private, conn.their_dh_public_key)
        derived == hkdf(dh_output, salt, "dh_ratchet_sending")
    IN [ conn EXCEPT !.prev_chain_length = conn.message_n,
                     !.message_n = 0,
                     !.my_dh_private_key = dh_keys.private,
                     !.my_dh_public_key = dh_keys.public,
                     !.root_key = derived[1],
                     !.sending_chain_key = derived[2],
                     !.need_ratchet = FALSE ]

\* the receiving DH ratchet also restarts their_message_n at its sentinel
ratchet_dh_receiving_keys_restart(conn, header, salt) ==
    LET dh_output == compute_dh(conn.my_dh_private_key, header.dh_public_key)
        derived == hkdf(dh_output, salt, "dh_ratchet_receiving")
    IN [ conn EXCEPT !.their_dh_public_key = header.dh_public_key,
                     !.root_key = derived[1],
                     !.receiving_chain_key = derived[2],
                     !.their_message_n = -1 ]

\* _ratchet_dh_receiving_keys on session conn
ratchet_dh_receiving_keys(conn, header, salt) ==
    LET dh_output == compute_dh(conn.my_dh_private_key, header.dh_public_key)
        derived == hkdf(dh_output, salt, "dh_ratchet_receiving")
    IN [ conn EXCEPT !.their_dh_public_key = header.dh_public_key,
                     !.root_key = derived[1],
                     !.receiving_chain_key = derived[2] ]

\* the lookup tests the session table instead of the certificate store
CertificateMissingSession(c, name) == name \notin DOMAIN conns[c]

\* lines 92-93 and 156-157: no certificate on file for the name
CertificateMissing(c, name) == name \notin DOMAIN certs[c]

(* ---------------------------- send_message ---------------------------- *)
\* a variant in which every send starts the session anew
SendCreatesAgain(c, name) == name \in Names

\* a send creates the session when absent and DH-ratchets it when flagged;
\* either draws a key pair and one salt
SendCreates(c, name) == name \notin DOMAIN conns[c]
\* a variant that runs the sending DH ratchet in every send on a session
SendRatchetsAlways(c, name) == name \in DOMAIN conns[c]

SendRatchets(c, name) == name \in DOMAIN conns[c] /\ conns[c][name].need_ratchet

\* the session send_message works on after lines 96-106
SendSession(c, name) ==
    IF SendCreates(c, name) THEN initialize_sending_session(c, name, gen_random_salt(c, 1))
    ELSE IF SendRatchets(c, name)
         THEN ratchet_dh_sending_keys(c, conns[c][name], gen_random_salt(c, 1))
         ELSE conns[c][name]

\* lines 112-116: the AES key of the message
SendAesKey(conn) ==
    hmac_to_aes_key(ratchet_sending_chain(conn.sending_chain_key)[1], "encrypt")

\* a variant whose escrow key is derived from the message key of the chain
SendGovCiphertextRatcheted(c, aes_sending_key, gov_iv) ==
    LET gov_key == hmac_to_aes_key(aes_sending_key, gov_encryption_data_str)
    IN encrypt_with_gcm(gov_key, aes_sending_key, gov_iv, "")

\* lines 126-129: the escrow ciphertext
SendGovCiphertext(c, aes_sending_key, gov_iv) ==
    LET gov_key == hmac_to_aes_key(compute_dh(my_keys[c].private, gov_public_key),
                                   gov_encryption_data_str)
    IN encrypt_with_gcm(gov_key, aes_sending_key, gov_iv, "")

\* v_gov carries the ratchet public key of the session
SendHeaderRatchetKey(c, conn, receiver_iv, gov_iv) ==
    [ dh_public_key |-> conn.my_dh_public_key,
      prev_chain_length |-> conn.prev_chain_length,
      message_n |-> conn.message_n,
      receiver_iv |-> receiver_iv,
      v_gov |-> conn.my_dh_public_key,
      c_gov |-> SendGovCiphertext(c, SendAesKey(conn), gov_iv),
      iv_gov |-> gov_iv ]

\* a variant whose header carries the index after the increment
SendHeaderPostIncrement(c, conn, receiver_iv, gov_iv) ==
    [ dh_public_key |-> conn.my_dh_public_key,
      prev_chain_length |-> conn.prev_chain_length,
      message_n |-> conn.message_n + 1,
      receiver_iv |-> receiver_iv,
      v_gov |-> my_keys[c].public,
      c_gov |-> SendGovCiphertext(c, SendAesKey(conn), gov_iv),
      iv_gov |-> gov_iv ]

\* a variant that uses one drawn value for the message and for the escrow
SendHeaderOneIv(c, conn, receiver_iv, gov_iv) ==
    [ dh_public_key |-> conn.my_dh_public_key,
      prev_chain_length |-> conn.prev_chain_length,
      message_n |-> conn.message_n,
      receiver_iv |-> receiver_iv,
      v_gov |-> my_keys[c].public,
      c_gov |-> SendGovCiphertext(c, SendAesKey(conn), receiver_iv),
      iv_gov |-> receiver_iv ]

\* a variant whose header names the identity key as the ratchet key
SendHeaderIdentityKey(c, conn, receiver_iv, gov_iv) ==
    [ dh_public_key |-> my_keys[c].public,
      prev_chain_length |-> conn.prev_chain_length,
      message_n |-> conn.message_n,
      receiver_iv |-> receiver_iv,
      v_gov |-> my_keys[c].public,
      c_gov |-> SendGovCiphertext(c, SendAesKey(conn), gov_iv),
      iv_gov |-> gov_iv ]

\* lines 118-134: the header
SendHeader(c, conn, receiver_iv, gov_iv) ==
    [ dh_public_key |-> conn.my_dh_public_key,
      prev_chain_length |-> conn.prev_chain_length,
      message_n |-> conn.message_n,
      receiver_iv |-> receiver_iv,
      v_gov |-> my_keys[c].public,
      c_gov |-> SendGovCiphertext(c, SendAesKey(conn), gov_iv),
      iv_gov |-> gov_iv ]

\* every send also moves the root key
SendCommitRootStep(conn) ==
    [ conn EXCEPT !.sending_chain_key = ratchet_sending_chain(conn.sending_chain_key)[2],
                  !.root_key = hmac_to_hmac_key(conn.root_key, "next_chain_key"),
                  !.message_n = conn.message_n + 1 ]

\* a variant that moves the chain without counting the message
SendCommitUncounted(conn) ==
    [ conn EXCEPT !.sending_chain_key = ratchet_sending_chain(conn.sending_chain_key)[2] ]

\* lines 112-113 and 136-137: the session after the send
SendCommit(conn) ==
    [ conn EXCEPT !.sending_chain_key = ratchet_sending_chain(conn.sending_chain_key)[2],
                  !.message_n = conn.message_n + 1 ]

\* line 140 and 142: the returned (header, ciphertext)
SendMessage(c, conn, plaintext, receiver_iv, gov_iv) ==
    LET header == SendHeader(c, conn, receiver_iv, gov_iv)
    IN [ header |-> header,
         ciphertext |-> encrypt_with_gcm(SendAesKey(conn), plaintext, receiver_iv,
                                         StrHeader(header)) ]

send_message(c, name, plaintext) ==
    /\ (SendCreates(c, name) \/ SendRatchets(c, name)) => keys_drawn[c] < MaxKeys
    /\ IF CertificateMissing(c, name)
       THEN /\ lastOp' = Op("send_message", c, name, "No certificate found", NoInfo)
            /\ UNCHANGED <<conns, keys_drawn, salts_drawn, sent>>
       ELSE IF SendCreates(c, name) /\ my_keys[c] = NoKeys
       THEN \* line 214: my_keys is None
            /\ lastOp' = Op("send_message", c, name, "TypeError", NoInfo)
            /\ UNCHANGED <<conns, keys_drawn, salts_drawn, sent>>
       ELSE IF SendRatchets(c, name) /\ conns[c][name].their_dh_public_key = None
       THEN \* line 282: compute_dh of None, after lines 271-279 were stored
            /\ conns' = [conns EXCEPT ![c][name] =
                            [ @ EXCEPT !.prev_chain_length = conns[c][name].message_n,
                                       !.message_n = 0,
                                       !.my_dh_private_key = generate_eg(c).private,
                                       !.my_dh_public_key = generate_eg(c).public ]]
            /\ keys_drawn' = [keys_drawn EXCEPT ![c] = @ + 1]
            /\ lastOp' = Op("send_message", c, name, "TypeError", NoInfo)
            /\ UNCHANGED <<salts_drawn, sent>>
       ELSE LET conn == SendSession(c, name)
                drew == IF SendCreates(c, name) \/ SendRatchets(c, name) THEN 1 ELSE 0
            IN IF conn.sending_chain_key = None
               THEN \* line 113: the hash ratchet of None
                    /\ lastOp' = Op("send_message", c, name, "TypeError", NoInfo)
                    /\ UNCHANGED <<conns, keys_drawn, salts_drawn, sent>>
               ELSE LET message == SendMessage(c, conn, plaintext,
                                               gen_random_salt(c, drew + 1),
                                               gen_random_salt(c, drew + 2))
                    IN /\ conns' = [conns EXCEPT ![c] = (name :> SendCommit(conn)) @@ @]
                       /\ keys_drawn' = [keys_drawn EXCEPT ![c] = @ + drew]
                       /\ salts_drawn' = [salts_drawn EXCEPT ![c] = @ + drew + 2]
                       /\ sent' = [sent EXCEPT ![c][name] =
                                      Append(@, [message |-> message,
                                                 plaintext |-> plaintext,
                                                 seen |-> delivered[c][name],
                                                 decoded |-> Cardinality(accepted[c][name])])]
                       /\ lastOp' = Op("send_message", c, name, "",
                                       Info("", FALSE, SendRatchets(c, name), plaintext))
    /\ UNCHANGED <<my_keys, my_certificate, certs, delivered, clean, accepted, calls>>

\* a client sends what it has to say, a bounded number of times
Send(c, name, limit) ==
    /\ Len(sent[c][name]) < limit
    /\ \E plaintext \in PlaintextsOf(c) : send_message(c, name, plaintext)

\* what send_message(name, .) of client c raises or puts in the header
SendOutcome(c, name) ==
    LET failed(error) == [error |-> error, message_n |-> -1, prev_chain_length |-> -1]
    IN IF CertificateMissing(c, name) THEN failed("No certificate found")
       ELSE IF SendCreates(c, name) /\ my_keys[c] = NoKeys THEN failed("TypeError")
       ELSE IF SendRatchets(c, name) /\ conns[c][name].their_dh_public_key = None
            THEN failed("TypeError")
       ELSE IF SendSession(c, name).sending_chain_key = None THEN failed("TypeError")
       ELSE [ error |-> "",
              message_n |-> SendSession(c, name).message_n,
              prev_chain_length |-> SendSession(c, name).prev_chain_length ]

(* -------------------------- receive_message --------------------------- *)
\* number of hash-ratchet steps taken from the key a chain was derived with
RECURSIVE ChainSteps(_)
ChainSteps(key) == IF key[1] = "hmac" THEN 1 + ChainSteps(key[2]) ELSE 0

ReceiveCreates(c, name) == name \notin DOMAIN conns[c]

\* lines 156-158 and 243 let the call through: a certificate is on file, and
\* my_keys is set when the session has to be created
ReceiveRuns(c, name) ==
    /\ name \in DOMAIN certs[c]
    /\ ~(ReceiveCreates(c, name) /\ my_keys[c] = NoKeys)

\* a new name is given the session of a name already in the table
ReceiveSessionShared(c, name, header) ==
    IF ReceiveCreates(c, name)
    THEN IF DOMAIN conns[c] # {}
         THEN conns[c][CHOOSE p \in DOMAIN conns[c] : TRUE]
         ELSE initialize_receiving_session(c, name, header, gen_random_salt(c, 1))
    ELSE conns[c][name]

\* lines 160-164: the session receive_message works on
ReceiveSession(c, name, header) ==
    IF ReceiveCreates(c, name)
    THEN initialize_receiving_session(c, name, header, gen_random_salt(c, 1))
    ELSE conns[c][name]

\* a variant that runs the receiving DH ratchet only while no peer key is held
ReceiveRatchetsUnset(c, name, header) ==
    ReceiveSession(c, name, header).their_dh_public_key = None

\* lines 166-169: the receiving DH ratchet runs when the header's key is new
ReceiveRatchets(c, name, header) ==
    header.dh_public_key # ReceiveSession(c, name, header).their_dh_public_key

ReceiveRatcheted(c, name, header) ==
    IF ReceiveRatchets(c, name, header)
    THEN ratchet_dh_receiving_keys(ReceiveSession(c, name, header), header,
                                   gen_random_salt(c, IF ReceiveCreates(c, name) THEN 2 ELSE 1))
    ELSE ReceiveSession(c, name, header)

\* line 179: the header carries the expected index
ReceiveSteps(c, name, header) ==
    header.message_n = ReceiveRatcheted(c, name, header).their_message_n

\* lines 181-184: the AES key of the message
ReceiveAesKey(conn) ==
    hmac_to_aes_key(ratchet_receiving_chain(conn.receiving_chain_key)[1], "decrypt")

\* the authentication failure is swallowed
ReceiveDecryptsUnchecked(conn, header, ciphertext) == TRUE

\* line 188: decrypt_with_gcm returns instead of raising
ReceiveDecrypts(conn, header, ciphertext) ==
    gcm_authentic(ReceiveAesKey(conn), ciphertext, header.receiver_iv, StrHeader(header))

\* line 181: the receiving chain after the hash-ratchet step
ReceiveStep(conn) ==
    [ conn EXCEPT !.receiving_chain_key =
                      ratchet_receiving_chain(conn.receiving_chain_key)[2] ]

\* a successful decryption moves the counter and leaves the flag alone
ReceiveCommitUnflagged(conn, header) ==
    [ conn EXCEPT !.their_message_n = header.message_n + 1 ]

\* lines 190-194: what a successful decryption stores
ReceiveCommit(conn, header) ==
    [ conn EXCEPT !.their_message_n = header.message_n + 1,
                  !.need_ratchet = TRUE ]

\* the index is compared for equality first: every other index is tampering
ReceiveErrorTamperFirst(conn, header, ciphertext) ==
    IF header.message_n # conn.their_message_n THEN "Message tampering detected!"
    ELSE IF ReceiveDecrypts(conn, header, ciphertext) THEN ""
         ELSE "Message tampering detected!"

\* lines 171-201 on the session conn (after lines 160-169): the error raised
\* ("" when the plaintext is returned)
ReceiveError(conn, header, ciphertext) ==
    IF header.message_n < conn.their_message_n THEN "Message replay detected!"
    ELSE IF header.message_n = conn.their_message_n
         THEN IF ReceiveDecrypts(conn, header, ciphertext) THEN ""
              ELSE "Message tampering detected!"
         ELSE "Message tampering detected!"

\* the call works on a copy of the session: what it stores is lost
ReceiveStoredLost(conn, header, ciphertext) == conn

\* lines 171-201 on the session conn: the session the call leaves behind
ReceiveStored(conn, header, ciphertext) ==
    IF header.message_n < conn.their_message_n THEN conn
    ELSE IF header.message_n = conn.their_message_n
         THEN IF ReceiveDecrypts(conn, header, ciphertext)
              THEN ReceiveCommit(ReceiveStep(conn), header)
              ELSE ReceiveStep(conn)
         ELSE conn

\* what receive_message(name, message) of client c raises ("" when it returns)
ReceiveOutcome(c, name, message) ==
    IF CertificateMissing(c, name) THEN "No certificate found"
    ELSE IF ReceiveCreates(c, name) /\ my_keys[c] = NoKeys THEN "TypeError"
    ELSE ReceiveError(ReceiveRatcheted(c, name, message.header),
                      message.header, message.ciphertext)

receive_message(c, name, message, src, idx) ==
    LET header == message.header
        ciphertext == message.ciphertext
    IN
    /\ (ReceiveRuns(c, name) /\ ReceiveRatchets(c, name, header)) =>
          salts_drawn[c] < MaxSalts
    /\ (ReceiveRuns(c, name) /\ ReceiveSteps(c, name, header)) =>
          ChainSteps(ReceiveRatcheted(c, name, header).receiving_chain_key) < MaxChain
    /\ IF CertificateMissing(c, name)
       THEN /\ lastOp' = Op("receive_message", c, name, "No certificate found",
                            ReceiveInfo(src, FALSE, FALSE, "", header))
            /\ UNCHANGED <<conns, salts_drawn, delivered, clean, accepted>>
       ELSE IF ReceiveCreates(c, name) /\ my_keys[c] = NoKeys
       THEN \* line 243: my_keys is None
            /\ lastOp' = Op("receive_message", c, name, "TypeError",
                            ReceiveInfo(src, FALSE, FALSE, "", header))
            /\ UNCHANGED <<conns, salts_drawn, delivered, clean, accepted>>
       ELSE LET conn == ReceiveRatcheted(c, name, header)
                error == ReceiveError(conn, header, ciphertext)
                inOrder == src = "genuine" /\ idx = delivered[c][name] + 1
            IN /\ conns' = [conns EXCEPT ![c] =
                               (name :> ReceiveStored(conn, header, ciphertext)) @@ @]
               /\ salts_drawn' = [salts_drawn EXCEPT ![c] =
                                     @ + (IF ReceiveCreates(c, name) THEN 1 ELSE 0)
                                       + (IF ReceiveRatchets(c, name, header) THEN 1 ELSE 0)]
               /\ delivered' = [delivered EXCEPT ![c][name] = IF inOrder THEN idx ELSE @]
               /\ clean' = [clean EXCEPT ![c][name] = @ /\ inOrder]
               /\ accepted' = [accepted EXCEPT ![c][name] =
                                  IF error = "" THEN @ \cup {message} ELSE @]
               /\ lastOp' = Op("receive_message", c, name, error,
                               ReceiveInfo(src, inOrder, ReceiveRatchets(c, name, header),
                                           IF error = "" THEN gcm_plaintext(ciphertext) ELSE "",
                                           header))
    /\ UNCHANGED <<my_keys, my_certificate, certs, keys_drawn, sent, calls>>

(* --------------------- messages handed to a receiver ------------------- *)
\* values a third party holds
MalloryPublicKey == PublicKey(MalloryKeyId)
MallorySalt == <<"salt", "mallory", 0>>
OtherPlaintext(plaintext) == IF plaintext = "hello" THEN "hi" ELSE "hello"

HeaderFields == { "dh_public_key", "prev_chain_length", "message_n-", "message_n+",
                  "receiver_iv", "v_gov", "c_gov", "iv_gov" }

\* message with one header field, or the ciphertext bytes, altered in transit
Alter(message, field) ==
    LET h == message.header
        ct == message.ciphertext
    IN CASE field = "dh_public_key" ->
              [message EXCEPT !.header.dh_public_key = MalloryPublicKey]
         [] field = "prev_chain_length" ->
              [message EXCEPT !.header.prev_chain_length = @ + 1]
         [] field = "message_n-" -> [message EXCEPT !.header.message_n = @ - 1]
         [] field = "message_n+" -> [message EXCEPT !.header.message_n = @ + 1]
         [] field = "receiver_iv" -> [message EXCEPT !.header.receiver_iv = MallorySalt]
         [] field = "v_gov" -> [message EXCEPT !.header.v_gov = MalloryPublicKey]
         [] field = "c_gov" ->
              [message EXCEPT !.header.c_gov =
                  <<[h.c_gov[1] EXCEPT !.iv = MallorySalt], h.c_gov[2]>>]
         [] field = "iv_gov" -> [message EXCEPT !.header.iv_gov = MallorySalt]
         [] field = "ciphertext" ->
              [message EXCEPT !.ciphertext =
                  <<[ct[1] EXCEPT !.pt = OtherPlaintext(@)], ct[2]>>]

\* a message from a sender that holds the receiving chain key of session conn
\* and numbers the message n: its header names the DH key the session stores
KeyedMessage(conn, n, plaintext) ==
    LET header == [ dh_public_key |-> conn.their_dh_public_key,
                    prev_chain_length |-> 0,
                    message_n |-> n,
                    receiver_iv |-> MallorySalt,
                    v_gov |-> MalloryPublicKey,
                    c_gov |-> encrypt_with_gcm(None, None, MallorySalt, ""),
                    iv_gov |-> MallorySalt ]
    IN [ header |-> header,
         ciphertext |-> encrypt_with_gcm(ReceiveAesKey(conn), plaintext, MallorySalt,
                                         StrHeader(header)) ]

\* the peers a client names
Peers(c) == Clients \ {c}
\* the clients a third party hands messages to
Targets == {"alice"}

ReceiveGenuine(c, name) ==
    \E idx \in 1..Len(sent[name][c]) :
        receive_message(c, name, sent[name][c][idx].message, "genuine", idx)

ReceiveAltered(c, name) ==
    \E idx \in 1..Len(sent[name][c]) : \E field \in HeaderFields \cup {"ciphertext"} :
        receive_message(c, name, Alter(sent[name][c][idx].message, field), "altered", idx)

ReceiveKeyed(c, name) ==
    /\ name \in DOMAIN conns[c]
    /\ conns[c][name].receiving_chain_key # None
    /\ conns[c][name].their_message_n < MaxRecv
    /\ \E n \in {conns[c][name].their_message_n, conns[c][name].their_message_n + 1} :
          \E plaintext \in Plaintexts :
             receive_message(c, name, KeyedMessage(conns[c][name], n, plaintext), "keyed", 0)

ReceiveReplayed(c, name) ==
    \E message \in accepted[c][name] : receive_message(c, name, message, "replay", 0)

\* a client is handed the certificate of a peer as the authority signed it
ReceivePeerCertificate(c) ==
    \E certificate \in {cert \in OwnCertificates : cert.username \in Peers(c)} :
        receive_certificate(c, certificate, sign_with_ecdsa(CAKeyId, StrCert(certificate)))

\* a client is handed any certificate with any signature
ReceiveAnyCertificate(c) ==
    \E certificate \in OwnCertificates \cup ForgedCertificates :
        \E signature \in Signatures : receive_certificate(c, certificate, signature)

\* the certificate of the user who runs no client, as the authority signed it
CarolCertificate == [username |-> "carol", public_key |-> PublicKey(CarolKeyId)]
ReceiveCarolCertificate(c) ==
    receive_certificate(c, CarolCertificate,
                        sign_with_ecdsa(CAKeyId, StrCert(CarolCertificate)))

\* the certificate the authority signed for a user's later key pair, handed
\* to a client that holds a certificate for that user
RenewedCertificates == {[username |-> u, public_key |-> PublicKey(RenewedKeyId)] : u \in Clients}
ReceiveRenewedCertificate(c) ==
    \E certificate \in {cert \in RenewedCertificates : cert.username \in DOMAIN certs[c]} :
        receive_certificate(c, certificate, sign_with_ecdsa(CAKeyId, StrCert(certificate)))

\* a message that sender produced for c is handed to c under another name
ReceiveMisnamed(c, name, sender) ==
    \E idx \in 1..Len(sent[sender][c]) :
        receive_message(c, name, sent[sender][c][idx].message, "misnamed", idx)

(* ----------------- two calls on one session, in flight ----------------- *)
\* a key with the salts it was derived with blanked: two runs that draw their
\* random values in another order give keys of the same shape
RECURSIVE Shape(_)
Shape(key) ==
    IF key[1] = "hkdf" THEN <<"hkdf", key[2], "salt", key[4], key[5]>>
    ELSE IF key[1] = "hmac" THEN <<"hmac", Shape(key[2]), key[3]>>
    ELSE key
View(conn) ==
    [ conn EXCEPT !.root_key = Shape(@),
                  !.sending_chain_key = Shape(@),
                  !.receiving_chain_key = Shape(@) ]

\* send_message, lines 101-137, run alone on the existing session conn
SendOn(c, conn) ==
    IF conn.need_ratchet
    THEN SendCommit(ratchet_dh_sending_keys(c, conn, gen_random_salt(c, 1)))
    ELSE SendCommit(conn)

\* receive_message, lines 164-201, run alone on the existing session conn
ReceiveOn(c, conn, message) ==
    ReceiveStored(IF message.header.dh_public_key # conn.their_dh_public_key
                  THEN ratchet_dh_receiving_keys(conn, message.header,
                                                 gen_random_salt(c, 1))
                  ELSE conn,
                  message.header, message.ciphertext)

\* two callers enter send_message(name, .) and receive_message(name, message)
\* of client c at once; the session exists and the send can run to its end
BeginCalls(c, name, message) ==
    /\ calls.spc = "idle"
    /\ name \in DOMAIN conns[c]
    /\ LET conn == conns[c][name]
       IN /\ conn.need_ratchet \/ conn.sending_chain_key # None
          /\ conn.need_ratchet => keys_drawn[c] < MaxKeys
          /\ calls' = [ NoCalls EXCEPT
                          !.client = c, !.name = name, !.message = message,
                          !.spc = "105", !.rpc = "168",
                          !.serial = { View(ReceiveOn(c, SendOn(c, conn), message)),
                                       View(SendOn(c, ReceiveOn(c, conn, message))) } ]
    /\ UNCHANGED <<my_keys, my_certificate, certs, conns, keys_drawn, salts_drawn,
                   sent, delivered, clean, accepted, lastOp>>

\* the next statement of the send_message in flight; spc is its line
SendStatement ==
    LET c == calls.client
        name == calls.name
        conn == conns[c][name]
        goto(line) == calls' = [calls EXCEPT !.spc = line]
        store(session) == conns' = [conns EXCEPT ![c][name] = session]
    IN /\ calls.spc \notin {"idle", "done"}
       /\ CASE calls.spc = "105" ->
                 /\ goto(IF conn.need_ratchet THEN "271" ELSE "113")
                 /\ UNCHANGED <<conns, keys_drawn, salts_drawn>>
            [] calls.spc = "271" ->
                 /\ store([conn EXCEPT !.prev_chain_length = conn.message_n,
                                       !.message_n = 0])
                 /\ goto("277")
                 /\ UNCHANGED <<keys_drawn, salts_drawn>>
            [] calls.spc = "277" ->
                 /\ store([conn EXCEPT !.my_dh_private_key = generate_eg(c).private,
                                       !.my_dh_public_key = generate_eg(c).public])
                 /\ keys_drawn' = [keys_drawn EXCEPT ![c] = @ + 1]
                 /\ goto("282")
                 /\ UNCHANGED salts_drawn
            [] calls.spc = "282" ->
                 /\ calls' = [calls EXCEPT
                                 !.sdh = compute_dh(conn.my_dh_private_key,
                                                    conn.their_dh_public_key),
                                 !.spc = "286"]
                 /\ UNCHANGED <<conns, keys_drawn, salts_drawn>>
            [] calls.spc = "286" ->
                 /\ store([conn EXCEPT
                             !.root_key = hkdf(calls.sdh, gen_random_salt(c, 1),
                                               "dh_ratchet_sending")[1],
                             !.sending_chain_key = hkdf(calls.sdh, gen_random_salt(c, 1),
                                                        "dh_ratchet_sending")[2]])
                 /\ salts_drawn' = [salts_drawn EXCEPT ![c] = @ + 1]
                 /\ goto("289")
                 /\ UNCHANGED keys_drawn
            [] calls.spc = "289" ->
                 /\ store([conn EXCEPT !.need_ratchet = FALSE])
                 /\ goto("113")
                 /\ UNCHANGED <<keys_drawn, salts_drawn>>
            [] calls.spc = "113" ->
                 \* lines 109-110 drew the two IVs
                 /\ store([conn EXCEPT !.sending_chain_key =
                                           ratchet_sending_chain(@)[2]])
                 /\ salts_drawn' = [salts_drawn EXCEPT ![c] = @ + 2]
                 /\ goto("137")
                 /\ UNCHANGED keys_drawn
            [] calls.spc = "137" ->
                 /\ store([conn EXCEPT !.message_n = @ + 1])
                 /\ goto("done")
                 /\ UNCHANGED <<keys_drawn, salts_drawn>>
       /\ UNCHANGED <<my_keys, my_certificate, certs, sent, delivered, clean,
                      accepted, lastOp>>

\* the next statement of the receive_message in flight; rpc is its line
ReceiveStatement ==
    LET c == calls.client
        name == calls.name
        conn == conns[c][name]
        header == calls.message.header
        goto(line) == calls' = [calls EXCEPT !.rpc = line]
        store(session) == conns' = [conns EXCEPT ![c][name] = session]
    IN /\ calls.rpc \notin {"idle", "done"}
       /\ CASE calls.rpc = "168" ->
                 /\ goto(IF header.dh_public_key # conn.their_dh_public_key
                         THEN "298" ELSE "172")
                 /\ UNCHANGED <<conns, salts_drawn>>
            [] calls.rpc = "298" ->
                 /\ store([conn EXCEPT !.their_dh_public_key = header.dh_public_key])
                 /\ goto("301")
                 /\ UNCHANGED salts_drawn
            [] calls.rpc = "301" ->
                 /\ calls' = [calls EXCEPT
                                 !.rdh = compute_dh(conn.my_dh_private_key,
                                                    conn.their_dh_public_key),
                                 !.rpc = "305"]
                 /\ UNCHANGED <<conns, salts_drawn>>
            [] calls.rpc = "305" ->
                 /\ store([conn EXCEPT
                             !.root_key = hkdf(calls.rdh, gen_random_salt(c, 1),
                                               "dh_ratchet_receiving")[1],
                             !.receiving_chain_key = hkdf(calls.rdh, gen_random_salt(c, 1),
                                                          "dh_ratchet_receiving")[2]])
                 /\ salts_drawn' = [salts_drawn EXCEPT ![c] = @ + 1]
                 /\ goto("172")
            [] calls.rpc = "172" ->
                 \* lines 172-179: raise unless the index is the expected one
                 /\ goto(IF header.message_n = conn.their_message_n
                         THEN "181" ELSE "done")
                 /\ UNCHANGED <<conns, salts_drawn>>
            [] calls.rpc = "181" ->
                 /\ store(ReceiveStep(conn))
                 /\ calls' = [calls EXCEPT !.rkey = ReceiveAesKey(conn), !.rpc = "188"]
                 /\ UNCHANGED salts_drawn
            [] calls.rpc = "188" ->
                 \* lines 188-198: decrypt, then store or raise
                 /\ IF gcm_authentic(calls.rkey, calls.message.ciphertext,
                                     header.receiver_iv, StrHeader(header))
                    THEN store(ReceiveCommit(conn, header))
                    ELSE UNCHANGED conns
                 /\ goto("done")
                 /\ UNCHANGED salts_drawn
       /\ UNCHANGED <<my_keys, my_certificate, certs, keys_drawn, sent, delivered,
                      clean, accepted, lastOp>>

\* alice's channel carries what bob sent, altered copies of it, messages
\* keyed to her session and replays
Next ==
    \/ \E c \in Clients : generate_certificate(c, c)
    \/ \E c \in Clients : ReceivePeerCertificate(c)
    \/ \E c \in Targets : \E name \in Peers(c) : Send(c, name, MaxSend)
    \/ \E c \in Clients \ Targets : \E name \in Peers(c) : Send(c, name, MaxPeerSend)
    \/ \E c \in Clients : \E name \in Peers(c) : ReceiveGenuine(c, name)
    \/ \E c \in Targets : \E name \in Peers(c) : ReceiveAltered(c, name)
    \/ \E c \in Targets : \E name \in Peers(c) : ReceiveKeyed(c, name)
    \/ \E c \in Targets : \E name \in Peers(c) : ReceiveReplayed(c, name)

Spec == Init /\ [][Next]_vars

\* both channels carry what was sent and nothing else
NextHonest ==
    \/ \E c \in Clients : generate_certificate(c, c)
    \/ \E c \in Clients : ReceivePeerCertificate(c)
    \/ \E c \in Clients : \E name \in Peers(c) : Send(c, name, MaxSend)
    \/ \E c \in Clients : \E name \in Peers(c) : ReceiveGenuine(c, name)

SpecHonest == Init /\ [][NextHonest]_vars

\* the certificate store alone, under every certificate and signature
NextCert ==
    \/ \E c \in Clients : generate_certificate(c, c)
    \/ \E c \in Clients : ReceiveAnyCertificate(c)
    \/ \E c \in Clients : ReceiveRenewedCertificate(c)

SpecCert == Init /\ [][NextCert]_vars

\* alice talks to two peers: bob, and carol whose messages are bob's under
\* her name or keyed to alice's session
NextPeers ==
    \/ \E c \in Clients : generate_certificate(c, c)
    \/ \E c \in Clients : ReceivePeerCertificate(c)
    \/ \E c \in Targets : ReceiveCarolCertificate(c)
    \/ \E c \in Targets : \E name \in Names \ {c} : Send(c, name, MaxSend - 1)
    \/ \E c \in Clients \ Targets : \E name \in Peers(c) : Send(c, name, MaxPeerSend)
    \/ \E c \in Targets : \E name \in Peers(c) : ReceiveGenuine(c, name)
    \/ \E c \in Targets : \E name \in Names \ Clients :
          \E sender \in Peers(c) : ReceiveMisnamed(c, name, sender)
    \/ \E c \in Targets : \E name \in Names \ {c} : ReceiveKeyed(c, name)

SpecPeers == Init /\ [][NextPeers]_vars

\* the messages a caller may hand to the receive_message in flight: those the
\* peer sent, copies of them under another DH key, and one keyed to the session
Offered(c, name) ==
    {sent[name][c][i].message : i \in 1..Len(sent[name][c])}
    \cup {Alter(sent[name][c][i].message, "dh_public_key") : i \in 1..Len(sent[name][c])}
    \cup (IF conns[c][name].receiving_chain_key # None
          THEN {KeyedMessage(conns[c][name], conns[c][name].their_message_n, "hi")}
          ELSE {})

\* the calls of a client come one at a time until two callers enter
\* send_message and receive_message for one peer at once; their statements
\* then run in any order
NextCalls ==
    \/ calls.spc = "idle" /\ \E c \in Clients : generate_certificate(c, c)
    \/ calls.spc = "idle" /\ \E c \in Clients : ReceivePeerCertificate(c)
    \/ calls.spc = "idle" /\ \E c \in Targets : \E name \in Peers(c) :
          Send(c, name, MaxSend - 1)
    \/ calls.spc = "idle" /\ \E c \in Clients \ Targets : \E name \in Peers(c) :
          Send(c, name, MaxPeerSend)
    \/ calls.spc = "idle" /\ \E c \in Targets : \E name \in Peers(c) :
          ReceiveGenuine(c, name)
    \/ calls.spc = "idle" /\ \E c \in Targets : \E name \in Peers(c) :
          ReceiveKeyed(c, name)
    \/ \E c \in Targets : \E name \in Peers(c) \cap DOMAIN conns[c] :
          \E message \in Offered(c, name) : BeginCalls(c, name, message)
    \/ SendStatement
    \/ ReceiveStatement

SpecCalls == Init /\ [][NextCalls]_vars

(* ------------------------------ claims -------------------------------- *)
\* a and b hold identity keys and each accepted the other's certificate
Exchanged(a, b) ==
    /\ my_keys[a] # NoKeys /\ my_keys[b] # NoKeys
    /\ b \in DOMAIN certs[a] /\ certs[a][b] = my_certificate[b]
    /\ a \in DOMAIN certs[b] /\ certs[b][a] = my_certificate[a]

\* the last call was receive_message, handed the next message of the peer in
\* sending order, after nothing but such messages
LastInOrder ==
    /\ lastOp.op = "receive_message"
    /\ lastOp.info.src = "genuine" /\ lastOp.info.inOrder
    /\ clean[lastOp.client][lastOp.name]
    /\ Exchanged(lastOp.client, lastOp.name)

\* the message that call was handed, as its sender recorded it
LastDelivered == sent[lastOp.name][lastOp.client][delivered[lastOp.client][lastOp.name]]

\* C1: a message delivered unmodified and in sending order between clients
\* that exchanged certificates is decoded to exactly the plaintext sent
C1_RoundTrip ==
    LastInOrder => /\ lastOp.error = ""
                   /\ lastOp.info.plaintext = LastDelivered.plaintext

\* C2: once a was handed a reply that b sent after b was handed a's first
\* message, the next message of a carries a DH key other than its first
C2_MutualRatchet ==
    \A a \in Clients : \A b \in Peers(a) : \A k \in 2..Len(sent[a][b]) :
        ( /\ Exchanged(a, b) /\ clean[a][b] /\ clean[b][a]
          /\ \E j \in 1..Len(sent[b][a]) :
                /\ sent[b][a][j].seen >= 1
                /\ sent[a][b][k].seen >= j
                /\ sent[a][b][k - 1].seen < j )
        => sent[a][b][k].message.header.dh_public_key
              # sent[a][b][1].message.header.dh_public_key

\* every message the client sent to the peer was sent after the peer's first
\* message was handed to it: its session was created by receive_message
RepliesOnly(b, a) ==
    /\ delivered[b][a] >= 1
    /\ \A i \in 1..Len(sent[b][a]) : sent[b][a][i].seen >= 1

\* C3: after a's first message was handed to b, b's send_message on the
\* session that receive created returns a message, and a decodes that
\* message to exactly the plaintext b sent
C3_Bidirectional ==
    /\ ( /\ lastOp.op = "send_message"
         /\ Exchanged(lastOp.client, lastOp.name)
         /\ clean[lastOp.client][lastOp.name]
         /\ RepliesOnly(lastOp.client, lastOp.name) )
       => lastOp.error = ""
    /\ (LastInOrder /\ RepliesOnly(lastOp.name, lastOp.client))
       => /\ lastOp.error = ""
          /\ lastOp.info.plaintext = LastDelivered.plaintext

\* C4: a call that is handed a pair an earlier call decoded raises, and every
\* call that returns a plaintext decodes a pair not decoded before
C4_Replay ==
    [][ /\ (lastOp'.op = "receive_message" /\ lastOp'.info.src = "replay")
           => lastOp'.error # ""
        /\ (lastOp'.op = "receive_message" /\ lastOp'.error = "")
           => accepted'[lastOp'.client][lastOp'.name]
                 # accepted[lastOp'.client][lastOp'.name] ]_vars

\* a decoded pair was handed in again and refused as a replay
C4_Witness ==
    /\ lastOp.op = "receive_message" /\ lastOp.info.src = "replay"
    /\ lastOp.error = "Message replay detected!"
    /\ accepted[lastOp.client][lastOp.name] # {}

\* C5: a sent message with one header field or the ciphertext altered is
\* refused: receive_message raises and returns no plaintext
C5_TamperSensitivity ==
    (lastOp.op = "receive_message" /\ lastOp.info.src = "altered")
    => /\ lastOp.error # ""
       /\ lastOp.info.plaintext = ""

\* an altered message reached the decryption (the chain took its step) and
\* failed authentication
C5_Witness ==
    /\ lastOp.op = "receive_message" /\ lastOp.info.src = "altered"
    /\ lastOp.error = "Message tampering detected!"
    /\ accepted[lastOp.client][lastOp.name] = {}
    /\ ChainSteps(conns[lastOp.client][lastOp.name].receiving_chain_key) = 1

\* C6: a receive_message that raises on an existing session leaves that
\* session as it was
C6_NoPartialMutation ==
    [][ ( /\ lastOp'.op = "receive_message"
          /\ lastOp'.error \in {"Message replay detected!", "Message tampering detected!"}
          /\ lastOp'.name \in DOMAIN conns[lastOp'.client] )
        => conns'[lastOp'.client][lastOp'.name] = conns[lastOp'.client][lastOp'.name] ]_vars

\* C7: receive_certificate stores the certificate under its username when the
\* signature verifies under the authority's key, and otherwise raises and
\* leaves the store as it was
C7_ReceiveCertificate ==
    [][ lastOp'.op = "receive_certificate" =>
          LET c == lastOp'.client
              certificate == lastOp'.info.certificate
          IN IF verify_with_ecdsa(ca_public_key, StrCert(certificate),
                                  lastOp'.info.signature)
             THEN /\ lastOp'.error = ""
                  /\ certificate.username \in DOMAIN certs'[c]
                  /\ certs'[c][certificate.username] = certificate
                  /\ \A u \in DOMAIN certs[c] \ {certificate.username} :
                        u \in DOMAIN certs'[c] /\ certs'[c][u] = certs[c][u]
             ELSE /\ lastOp'.error # ""
                  /\ certs' = certs ]_vars

\* a certificate was refused by a client that holds an accepted one
C7_Witness ==
    /\ lastOp.op = "receive_certificate" /\ lastOp.error # ""
    /\ DOMAIN certs[lastOp.client] # {}

\* the government's private key
gov_private_key == PrivateKey(GovKeyId)

\* C8: c_gov of every sent message decrypts, under the key derived from
\* DH(government private key, v_gov) and with iv_gov, to the AES key the
\* message's plaintext was encrypted under
C8_Escrow ==
    \A a \in Clients : \A b \in Peers(a) : \A i \in 1..Len(sent[a][b]) :
        LET header == sent[a][b][i].message.header
            gov_key == hmac_to_aes_key(compute_dh(gov_private_key, header.v_gov),
                                       gov_encryption_data_str)
        IN /\ gcm_authentic(gov_key, header.c_gov, header.iv_gov, "")
           /\ gcm_plaintext(header.c_gov) = sent[a][b][i].message.ciphertext[1].key

\* a message of a DH-ratcheted chain was sent
C8_Witness ==
    /\ lastOp.op = "send_message" /\ lastOp.error = "" /\ lastOp.info.ratcheted
    /\ Len(sent[lastOp.client][lastOp.name]) >= 2

\* C9 as stated: neither message_n nor their_message_n of a session ever
\* decreases
C9_CounterMonotonic ==
    [][ \A c \in Clients : \A p \in DOMAIN conns[c] :
          /\ conns'[c][p].message_n >= conns[c][p].message_n
          /\ conns'[c][p].their_message_n >= conns[c][p].their_message_n ]_vars

\* C9 amended: their_message_n never decreases, and message_n decreases only
\* in a send_message that runs the sending DH ratchet, which leaves it at 1
C9_CountersAmended ==
    [][ \A c \in Clients : \A p \in DOMAIN conns[c] :
          /\ conns'[c][p].their_message_n >= conns[c][p].their_message_n
          /\ \/ conns'[c][p].message_n >= conns[c][p].message_n
             \/ /\ lastOp'.op = "send_message"
                /\ lastOp'.client = c /\ lastOp'.name = p
                /\ conns[c][p].need_ratchet
                /\ conns'[c][p].message_n = 1 ]_vars

\* a send ran the DH ratchet on a chain of two messages
C9_Witness ==
    /\ lastOp.op = "send_message" /\ lastOp.error = "" /\ lastOp.info.ratcheted
    /\ conns[lastOp.client][lastOp.name].prev_chain_length = 2
    /\ conns[lastOp.client][lastOp.name].message_n = 1
    /\ conns[lastOp.client][lastOp.name].their_message_n = 0

\* key is what a DH ratchet with the given label derives for a chain
Rederived(key, label) == key[1] = "hkdf" /\ key[4] = label /\ key[5] = 2
\* key is chain_key or one hash-ratchet step after it
OneStep(key, chain_key) ==
    key = chain_key \/ key = hmac_to_hmac_key(chain_key, "next_chain_key")

\* C10: root_key changes only in a send_message with need_ratchet set or a
\* receive_message whose header carries a new DH key; the chain keys change
\* by one hash-ratchet step, or are derived anew in such a call
C10_RootKeyFrame ==
    [][ \A c \in Clients : \A p \in DOMAIN conns[c] :
          LET old == conns[c][p]
              new == conns'[c][p]
              sendRatchet == /\ lastOp'.op = "send_message"
                             /\ lastOp'.client = c /\ lastOp'.name = p
                             /\ old.need_ratchet
              receiveRatchet == /\ lastOp'.op = "receive_message"
                                /\ lastOp'.client = c /\ lastOp'.name = p
                                /\ new.their_dh_public_key # old.their_dh_public_key
          IN /\ new.root_key # old.root_key => sendRatchet \/ receiveRatchet
             /\ \/ OneStep(new.sending_chain_key, old.sending_chain_key)
                \/ /\ sendRatchet
                   /\ \E key \in {new.sending_chain_key[2]} :
                         Rederived(key, "dh_ratchet_sending")
             /\ \/ OneStep(new.receiving_chain_key, old.receiving_chain_key)
                \/ /\ receiveRatchet
                   /\ \E key \in {new.receiving_chain_key, new.receiving_chain_key[2]} :
                         Rederived(key, "dh_ratchet_receiving") ]_vars

\* a send without the DH ratchet followed one with it: the root key of the
\* ratchet is in place and the chain moved one step
C10_Witness ==
    /\ lastOp.op = "send_message" /\ lastOp.error = "" /\ ~lastOp.info.ratcheted
    /\ conns[lastOp.client][lastOp.name].root_key[1] = "hkdf"
    /\ conns[lastOp.client][lastOp.name].root_key[4] = "dh_ratchet_sending"
    /\ conns[lastOp.client][lastOp.name].message_n = 2

\* the chain keys a session holds
ChainKeys(conn) == {conn.sending_chain_key, conn.receiving_chain_key} \ {None}

\* C11: a send_message or receive_message naming one peer leaves the session
\* of every other name, and what a call naming it would raise or number, as
\* they were; no two sessions of a client hold a chain key in common
C11_SessionIsolation ==
    [][ \A c \in Clients : \A x \in Names :
          ( /\ lastOp'.op \in {"send_message", "receive_message"}
            /\ lastOp'.client = c /\ lastOp'.name = x )
          => /\ \A d \in Clients \ {c} : conns'[d] = conns[d]
             /\ \A y \in Names \ {x} :
                   /\ (y \in DOMAIN conns'[c]) = (y \in DOMAIN conns[c])
                   /\ y \in DOMAIN conns[c] => conns'[c][y] = conns[c][y]
                   /\ SendOutcome(c, y)' = SendOutcome(c, y)
                   /\ \A d \in Clients \ {c} : \A i \in 1..Len(sent[d][c]) :
                         ReceiveOutcome(c, y, sent[d][c][i].message)'
                            = ReceiveOutcome(c, y, sent[d][c][i].message)
             /\ \A y \in DOMAIN conns'[c] : \A z \in DOMAIN conns'[c] \ {y} :
                   ChainKeys(conns'[c][y]) \cap ChainKeys(conns'[c][z]) = {} ]_vars

\* a DH-ratcheting send to one peer while the session of the other holds a
\* flagged ratchet and messages of its own
C11_Witness ==
    /\ lastOp.op = "send_message" /\ lastOp.error = "" /\ lastOp.info.ratcheted
    /\ \E y \in DOMAIN conns[lastOp.client] \ {lastOp.name} :
          /\ conns[lastOp.client][y].need_ratchet
          /\ conns[lastOp.client][y].message_n >= 1

\* C12: a receive_message that got past the certificate lookup raises the
\* replay error when the header's index is below the session's their_message_n
\* and the tamper error when it is above; in the latter case the session
\* keeps its counters and takes no hash-ratchet step: nothing of the message
\* is kept
C12_IndexErrors ==
    [][ \A c \in Clients : \A p \in Names :
          ( /\ lastOp'.op = "receive_message"
            /\ lastOp'.client = c /\ lastOp'.name = p
            /\ lastOp'.error \notin {"No certificate found", "TypeError"} )
          => LET new == conns'[c][p]
                 expected == IF p \in DOMAIN conns[c] THEN conns[c][p].their_message_n
                             ELSE new.their_message_n
                 n == lastOp'.info.message_n
             IN /\ n < expected => lastOp'.error = "Message replay detected!"
                /\ n > expected =>
                      /\ lastOp'.error = "Message tampering detected!"
                      /\ new.their_message_n = expected
                      /\ p \in DOMAIN conns[c] =>
                            /\ new.need_ratchet = conns[c][p].need_ratchet
                            /\ \/ new.receiving_chain_key = conns[c][p].receiving_chain_key
                               \/ ChainSteps(new.receiving_chain_key) = 0
                      /\ p \notin DOMAIN conns[c] =>
                            /\ ~new.need_ratchet
                            /\ ChainSteps(new.receiving_chain_key) = 0 ]_vars

\* a session that accepted a message was handed a later index and refused it
C12_Witness ==
    /\ lastOp.op = "receive_message"
    /\ lastOp.error = "Message tampering detected!"
    /\ conns[lastOp.client][lastOp.name].their_message_n >= 0
    /\ lastOp.info.message_n > conns[lastOp.client][lastOp.name].their_message_n

\* C13: send_message and receive_message raise the certificate error when,
\* and only when, no certificate is on file for the name; the call then
\* leaves every session table, store and counter as it was
C13_CertificateError ==
    [][ \A c \in Clients : \A p \in Names :
          ( /\ lastOp'.op \in {"send_message", "receive_message"}
            /\ lastOp'.client = c /\ lastOp'.name = p )
          => IF p \notin DOMAIN certs[c]
             THEN /\ lastOp'.error = "No certificate found"
                  /\ p \notin DOMAIN conns'[c]
                  /\ UNCHANGED <<my_keys, my_certificate, certs, conns, keys_drawn,
                                 salts_drawn, sent, accepted>>
             ELSE lastOp'.error # "No certificate found" ]_vars

\* a client that holds its keys and a message of its peer was handed that
\* message before the peer's certificate
C13_Witness ==
    /\ lastOp.op = "receive_message" /\ lastOp.error = "No certificate found"
    /\ my_keys[lastOp.client] # NoKeys
    /\ conns[lastOp.client] = EmptyDict
    /\ Len(sent[lastOp.name][lastOp.client]) >= 1

\* C14: when a send_message and a receive_message for one peer, entered at
\* once, have both ended, the session is as one of the two serial orders of
\* the calls leaves it
C14_Serialized ==
    (calls.spc = "done" /\ calls.rpc = "done")
    => View(conns[calls.client][calls.name]) \in calls.serial

\* what the holder of the given keys computes from them in depth rounds of
\* the keyed derivations: HMAC runs forward only
RECURSIVE Derivable(_, _)
Derivable(keys, depth) ==
    IF depth = 0 THEN keys
    ELSE Derivable(keys
                   \cup {hmac_to_hmac_key(k, l) : k \in keys,
                                                  l \in {"message_key", "next_chain_key"}}
                   \cup {hmac_to_aes_key(k, l) : k \in keys, l \in {"encrypt", "decrypt"}},
                   depth - 1)

\* the chain keys the hash ratchet went through before it reached key
RECURSIVE EarlierChainKeys(_)
EarlierChainKeys(key) ==
    IF key[1] = "hmac" THEN {key[2]} \cup EarlierChainKeys(key[2]) ELSE {}

\* C15: from a chain key a session holds, none of the chain's earlier chain
\* keys, none of their message keys, and no AES key of a message the session
\* sent or decoded before can be computed
C15_ForwardSecrecy ==
    \A c \in Clients : \A p \in DOMAIN conns[c] : \A key \in ChainKeys(conns[c][p]) :
        LET known == Derivable({key}, MaxDerive)
        IN /\ EarlierChainKeys(key) \cap known = {}
           /\ \A k \in EarlierChainKeys(key) :
                 /\ hmac_to_hmac_key(k, "message_key") \notin known
                 /\ hmac_to_aes_key(hmac_to_hmac_key(k, "message_key"), "encrypt")
                       \notin known
                 /\ hmac_to_aes_key(hmac_to_hmac_key(k, "message_key"), "decrypt")
                       \notin known
           /\ \A i \in 1..Len(sent[c][p]) :
                 sent[c][p][i].message.ciphertext[1].key \notin known
           /\ \A message \in accepted[c][p] : message.ciphertext[1].key \notin known

\* a sending chain two steps on, after two messages
C15_Witness ==
    \E c \in Clients : \E p \in DOMAIN conns[c] :
        /\ conns[c][p].sending_chain_key # None
        /\ ChainSteps(conns[c][p].sending_chain_key) = 2
        /\ Len(sent[c][p]) >= 2

\* the index the peer p puts in the header of its next message to c
NextIndex(p, c) ==
    IF p \in Clients /\ c \in DOMAIN conns[p] THEN conns[p][c].message_n ELSE 0

\* C16: when a client was handed, in sending order and nothing else, every
\* message its peer sent, and decoded each, then their_message_n of its
\* session is the index of the peer's next message; on a session no message has
\* reached yet that index is 0
C16_NextExpected ==
    \A c \in Clients : \A p \in Peers(c) \cap DOMAIN conns[c] :
        ( /\ clean[c][p]
          /\ delivered[c][p] = Len(sent[p][c])
          /\ \A i \in 1..Len(sent[p][c]) : sent[p][c][i].message \in accepted[c][p] )
        => conns[c][p].their_message_n = NextIndex(p, c)

\* C17: receive_message returns only when the header's index is the
\* session's their_message_n of before the call (that of the new session when
\* the call created it); it then leaves their_message_n one above that index
\* and need_ratchet set; a call that raises leaves need_ratchet as it was
C17_ReceiveCommits ==
    [][ \A c \in Clients : \A p \in Names :
          ( /\ lastOp'.op = "receive_message"
            /\ lastOp'.client = c /\ lastOp'.name = p
            /\ p \in DOMAIN conns'[c] )
          => LET new == conns'[c][p]
                 n == lastOp'.info.message_n
             IN IF lastOp'.error = ""
                THEN /\ n = (IF p \in DOMAIN conns[c]
                             THEN conns[c][p].their_message_n ELSE -1)
                     /\ new.their_message_n = n + 1
                     /\ new.need_ratchet
                ELSE new.need_ratchet =
                        (IF p \in DOMAIN conns[c] THEN conns[c][p].need_ratchet ELSE FALSE)
      ]_vars

\* a message was decoded by a session that had sent a message of its own
C17_Witness ==
    /\ lastOp.op = "receive_message" /\ lastOp.error = ""
    /\ conns[lastOp.client][lastOp.name].need_ratchet
    /\ conns[lastOp.client][lastOp.name].their_message_n = lastOp.info.message_n + 1
    /\ conns[lastOp.client][lastOp.name].message_n >= 1

\* C18: the first message of the sending chain a peer started with a DH
\* ratchet (index 0 under a DH key other than that of the message before),
\* handed over in sending order, is decoded to the plaintext sent
C18_NewChainAccepted ==
    ( /\ lastOp.op = "receive_message"
      /\ lastOp.info.src = "genuine" /\ lastOp.info.inOrder
      /\ delivered[lastOp.client][lastOp.name] >= 2
      /\ LastDelivered.message.header.message_n = 0
      /\ LastDelivered.message.header.dh_public_key
            # sent[lastOp.name][lastOp.client][delivered[lastOp.client][lastOp.name] - 1]
                 .message.header.dh_public_key )
    => /\ lastOp.error = ""
       /\ lastOp.info.plaintext = LastDelivered.plaintext

\* the AES keys the session derives, or derived in its last step, from its
\* receiving chain
ReceivingAesKeys(conn) ==
    { hmac_to_aes_key(ratchet_receiving_chain(key)[1], "decrypt") :
        key \in {conn.receiving_chain_key}
                \cup (IF conn.receiving_chain_key[1] = "hmac"
                      THEN {conn.receiving_chain_key[2]} ELSE {}) }

\* C19: when a message is handed over in sending order, after nothing but
\* such messages, the AES key its receiver derives from the receiving chain is
\* the AES key its sender encrypted it under
C19_KeyAgreement ==
    LastInOrder =>
        LastDelivered.message.ciphertext[1].key
            \in ReceivingAesKeys(conns[lastOp.client][lastOp.name])

\* C20: when a client refused an altered copy of a peer's message and is
\* handed next the peer's message that is due in sending order, it decodes
\* that message to the plaintext sent
C20_DeliveryAfterForgery ==
    [][ ( /\ lastOp.op = "receive_message"
          /\ lastOp.info.src = "altered" /\ lastOp.error # ""
          /\ lastOp'.op = "receive_message"
          /\ lastOp'.client = lastOp.client /\ lastOp'.name = lastOp.name
          /\ lastOp'.info.src = "genuine" /\ lastOp'.info.inOrder
          /\ Exchanged(lastOp.client, lastOp.name) )
        => /\ lastOp'.error = ""
           /\ lastOp'.info.plaintext =
                 sent[lastOp.name][lastOp.client]
                     [delivered'[lastOp.client][lastOp.name]].plaintext ]_vars

\* successive messages of a client to a peer with no message decoded between
\* them carry the same DH key and the same prev_chain_length
SameChainBetweenReceives ==
    \A c \in Clients : \A p \in Names :
       \A i \in 1..(Len(sent[c][p]) - 1) :
          LET first == sent[c][p][i]
              second == sent[c][p][i + 1]
          IN first.decoded = second.decoded
             => /\ second.message.header.dh_public_key = first.message.header.dh_public_key
                /\ second.message.header.prev_chain_length = first.message.header.prev_chain_length

\* C21: send_message runs the sending DH ratchet (a new ratchet key pair and
\* a new root key) exactly when need_ratchet was set at the call, a send that
\* creates the session runs none, need_ratchet is clear after every send, and
\* sends with no successful receive between them carry the same
\* dh_public_key and prev_chain_length
C21_RatchetOnDemand ==
    [][ /\ \A c \in Clients : \A p \in Names :
             ( /\ lastOp'.op = "send_message"
               /\ lastOp'.client = c /\ lastOp'.name = p
               /\ p \in DOMAIN conns'[c] )
             => LET new == conns'[c][p]
                IN /\ ~new.need_ratchet
                   /\ IF p \in DOMAIN conns[c]
                      THEN LET old == conns[c][p]
                           IN /\ old.need_ratchet
                                 <=> new.my_dh_public_key # old.my_dh_public_key
                              /\ old.need_ratchet <=> new.root_key # old.root_key
                              /\ old.need_ratchet
                                 <=> new.my_dh_private_key # old.my_dh_private_key
                      ELSE new.root_key[1] = "dh"
        /\ SameChainBetweenReceives' ]_vars

\* a send ran the DH ratchet and the next send, with nothing decoded between
\* them, kept its DH key and prev_chain_length
C21_Witness ==
    /\ lastOp.op = "send_message" /\ lastOp.error = "" /\ ~lastOp.info.ratcheted
    /\ \E i \in 2..(Len(sent[lastOp.client][lastOp.name]) - 1) :
          LET s == sent[lastOp.client][lastOp.name]
          IN /\ i + 1 = Len(s)
             /\ s[i].message.header.dh_public_key # s[i - 1].message.header.dh_public_key
             /\ s[i].decoded > s[i - 1].decoded
             /\ s[i + 1].decoded = s[i].decoded
             /\ s[i + 1].message.header.dh_public_key = s[i].message.header.dh_public_key
             /\ s[i + 1].message.header.prev_chain_length = 1

\* the messages before the i-th of s that carry the DH key of the (i-1)-th:
\* the sending chain that the i-th message left behind
PreviousChain(s, i) ==
    {j \in 1..(i - 1) : s[j].message.header.dh_public_key
                           = s[i - 1].message.header.dh_public_key}

\* C22: the first message after a sending DH ratchet (its DH key is not that
\* of the message before) carries message_n = 0 and, as prev_chain_length,
\* the number of messages sent in the chain before; the messages of the
\* first chain carry prev_chain_length = 0
C22_PrevChainLength ==
    \A c \in Clients : \A p \in Names :
       LET s == sent[c][p]
       IN \A i \in 1..Len(s) :
             LET header == s[i].message.header
             IN /\ ( i > 1 /\ header.dh_public_key # s[i - 1].message.header.dh_public_key )
                   => /\ header.message_n = 0
                      /\ header.prev_chain_length = Cardinality(PreviousChain(s, i))
                /\ header.dh_public_key = s[1].message.header.dh_public_key
                   => header.prev_chain_length = 0

\* two messages went out in the first chain, then one after a DH ratchet
C22_Witness ==
    /\ lastOp.op = "send_message" /\ lastOp.error = "" /\ lastOp.info.ratcheted
    /\ LET s == sent[lastOp.client][lastOp.name]
       IN /\ Len(s) = 3
          /\ s[1].message.header.prev_chain_length = 0
          /\ s[2].message.header.dh_public_key = s[1].message.header.dh_public_key
          /\ s[3].message.header.dh_public_key # s[2].message.header.dh_public_key
          /\ s[3].message.header.message_n = 0
          /\ s[3].message.header.prev_chain_length = 2

\* C23: receive_message runs the receiving DH ratchet exactly when the
\* header's dh_public_key is not the session's their_dh_public_key: it then
\* stores the header's key and derives root_key and receiving_chain_key anew
\* from the DH output of the local ratchet key and that key; otherwise the
\* peer key and root_key stay. Either way the local ratchet key pair,
\* sending_chain_key, message_n and prev_chain_length stay, and need_ratchet
\* is touched by nothing but the success of the call
C23_ReceivingRatchet ==
    [][ \A c \in Clients : \A p \in Names :
          ( /\ lastOp'.op = "receive_message"
            /\ lastOp'.client = c /\ lastOp'.name = p
            /\ p \in DOMAIN conns'[c] )
          => LET new == conns'[c][p]
                 key == lastOp'.info.dh_public_key
             IN IF p \in DOMAIN conns[c]
                THEN LET old == conns[c][p]
                     IN /\ IF key # old.their_dh_public_key
                           THEN /\ new.their_dh_public_key = key
                                /\ new.root_key[1] = "hkdf"
                                /\ new.root_key[2] = compute_dh(old.my_dh_private_key, key)
                                /\ new.root_key[4] = "dh_ratchet_receiving"
                                /\ new.root_key[5] = 1
                                /\ new.root_key # old.root_key
                                /\ \E chain \in {new.receiving_chain_key,
                                                 new.receiving_chain_key[2]} :
                                      /\ chain = hkdf(new.root_key[2], new.root_key[3],
                                                      new.root_key[4])[2]
                                      /\ chain # old.receiving_chain_key
                           ELSE /\ new.their_dh_public_key = old.their_dh_public_key
                                /\ new.root_key = old.root_key
                                /\ OneStep(new.receiving_chain_key, old.receiving_chain_key)
                        /\ new.my_dh_private_key = old.my_dh_private_key
                        /\ new.my_dh_public_key = old.my_dh_public_key
                        /\ new.sending_chain_key = old.sending_chain_key
                        /\ new.message_n = old.message_n
                        /\ new.prev_chain_length = old.prev_chain_length
                        /\ new.need_ratchet = (old.need_ratchet \/ lastOp'.error = "")
                ELSE /\ new.their_dh_public_key = key
                     /\ new.root_key[1] = "dh"
      ]_vars

\* a session that had sent a message, held a peer key and had decoded a
\* message was handed a header with another key: the ratchet ran
C23_Witness ==
    /\ lastOp.op = "receive_message" /\ lastOp.info.ratcheted
    /\ LET conn == conns[lastOp.client][lastOp.name]
       IN /\ conn.their_dh_public_key = lastOp.info.dh_public_key
          /\ conn.root_key[1] = "hkdf" /\ conn.root_key[4] = "dh_ratchet_receiving"
          /\ conn.root_key[2] = compute_dh(conn.my_dh_private_key, lastOp.info.dh_public_key)
          /\ conn.message_n >= 1
          /\ conn.sending_chain_key # None
          /\ conn.their_message_n >= 0

\* the messages before the i-th of s that belong to its sending chain
SameChainBefore(s, i) ==
    {j \in 1..(i - 1) : s[j].message.header.dh_public_key
                           = s[i].message.header.dh_public_key}

\* the k-th message of every sending chain carries index k - 1
IndexedInChain ==
    \A c \in Clients : \A p \in Names :
       \A i \in 1..Len(sent[c][p]) :
          sent[c][p][i].message.header.message_n
             = Cardinality(SameChainBefore(sent[c][p], i))

\* C24: a send_message that returns put the session's message_n of before
\* the increment (0 when the call created the session or ran the DH ratchet)
\* in the header and left message_n one above it, so the k-th message of a
\* chain carries index k - 1, with no gap and no repeat
C24_SendIndex ==
    [][ /\ \A c \in Clients : \A p \in Names :
             ( /\ lastOp'.op = "send_message" /\ lastOp'.error = ""
               /\ lastOp'.client = c /\ lastOp'.name = p )
             => LET header == sent'[c][p][Len(sent'[c][p])].message.header
                    before == IF p \in DOMAIN conns[c] /\ ~conns[c][p].need_ratchet
                              THEN conns[c][p].message_n ELSE 0
                IN /\ Len(sent'[c][p]) = Len(sent[c][p]) + 1
                   /\ header.message_n = before
                   /\ conns'[c][p].message_n = before + 1
        /\ IndexedInChain' ]_vars

\* the second message of the chain that a DH ratchet started went out, with
\* index 1, after a first chain of one message
C24_Witness ==
    /\ lastOp.op = "send_message" /\ lastOp.error = ""
    /\ LET s == sent[lastOp.client][lastOp.name]
       IN /\ Len(s) = 3
          /\ s[2].message.header.dh_public_key # s[1].message.header.dh_public_key
          /\ s[3].message.header.dh_public_key = s[2].message.header.dh_public_key
          /\ s[1].message.header.message_n = 0
          /\ s[2].message.header.message_n = 0
          /\ s[3].message.header.message_n = 1
          /\ conns[lastOp.client][lastOp.name].message_n = 2

\* C25: no send_message runs the hash ratchet of line 113 on an absent
\* sending_chain_key and no receive_message that of line 181 on an absent
\* receiving_chain_key: no call of a client that holds its keys ends in the
\* TypeError of a chain key that is None
C25_ChainKeysInitialised ==
    \A c \in Clients : \A p \in DOMAIN conns[c] :
       ( /\ lastOp.client = c /\ lastOp.name = p
         /\ lastOp.error = "TypeError"
         /\ my_keys[c] # NoKeys )
       => /\ lastOp.op = "send_message" => conns[c][p].sending_chain_key # None
          /\ lastOp.op = "receive_message" => conns[c][p].receiving_chain_key # None

\* the key a returned message was encrypted under
MessageKey(entry) == entry.message.ciphertext[1].key

\* C26: no two messages a client sent to one peer carry the same pair
\* (dh_public_key, message_n), and no two were encrypted under the same key
C26_UniqueMessageKeys ==
    \A c \in Clients : \A p \in Names :
       \A i \in 1..Len(sent[c][p]) : \A j \in 1..Len(sent[c][p]) :
          i < j
          => LET first == sent[c][p][i].message.header
                 second == sent[c][p][j].message.header
             IN /\ <<first.dh_public_key, first.message_n>>
                      # <<second.dh_public_key, second.message_n>>
                /\ MessageKey(sent[c][p][i]) # MessageKey(sent[c][p][j])

\* three messages went out in two chains: two of them share the index, two
\* the DH key, and the three keys differ
C26_Witness ==
    \E c \in Clients : \E p \in Names :
       LET s == sent[c][p]
       IN /\ Len(s) = 3
          /\ \E i \in 1..2 : \E j \in (i + 1)..3 :
                /\ s[i].message.header.message_n = s[j].message.header.message_n
                /\ s[i].message.header.dh_public_key # s[j].message.header.dh_public_key
          /\ \E i \in 1..2 : \E j \in (i + 1)..3 :
                /\ s[i].message.header.dh_public_key = s[j].message.header.dh_public_key
                /\ s[i].message.header.message_n # s[j].message.header.message_n
          /\ Cardinality({MessageKey(s[i]) : i \in 1..3}) = 3

\* the key a chain key was reached from by hash-ratchet steps
RECURSIVE ChainOrigin(_)
ChainOrigin(key) == IF key[1] = "hmac" THEN ChainOrigin(key[2]) ELSE key

\* new is the session old after a call, not a session set up anew: the root
\* key did not go back to a certificate shared secret, each chain continues
\* the old one or was started by a DH ratchet, the receive count did not drop
Continues(old, new) ==
    /\ new.root_key = old.root_key \/ new.root_key[1] = "hkdf"
    /\ \/ ChainOrigin(new.sending_chain_key) = ChainOrigin(old.sending_chain_key)
       \/ /\ ChainOrigin(new.sending_chain_key)[1] = "hkdf"
          /\ ChainOrigin(new.sending_chain_key)[4] = "dh_ratchet_sending"
    /\ \/ ChainOrigin(new.receiving_chain_key) = ChainOrigin(old.receiving_chain_key)
       \/ /\ ChainOrigin(new.receiving_chain_key)[1] = "hkdf"
          /\ ChainOrigin(new.receiving_chain_key)[4] = "dh_ratchet_receiving"
    /\ new.their_message_n >= old.their_message_n

\* C27: a session is never removed from a client's table and never set up
\* anew: every call leaves a session that continues the one before; a send
\* or receive naming a peer without session, by a client that holds its keys
\* and the peer's certificate, creates the session, and such a send returns
C27_SessionPersists ==
    [][ \A c \in Clients :
          /\ DOMAIN conns[c] \subseteq DOMAIN conns'[c]
          /\ \A p \in DOMAIN conns[c] : Continues(conns[c][p], conns'[c][p])
          /\ \A p \in Names \ DOMAIN conns[c] :
                ( /\ lastOp'.op \in {"send_message", "receive_message"}
                  /\ lastOp'.client = c /\ lastOp'.name = p
                  /\ p \in DOMAIN certs[c] /\ my_keys[c] # NoKeys )
                => /\ p \in DOMAIN conns'[c]
                   /\ lastOp'.op = "send_message" => lastOp'.error = ""
                   /\ lastOp'.error # "No certificate found"
      ]_vars

\* a session that send_message created was used by a receive_message that
\* ran the DH ratchet and by a later send: the first sending chain goes on
C27_Witness ==
    /\ lastOp.op = "send_message" /\ lastOp.error = ""
    /\ LET conn == conns[lastOp.client][lastOp.name]
       IN /\ conn.message_n = 2
          /\ ChainOrigin(conn.sending_chain_key)[4] = "sending_chain_init"
          /\ ChainOrigin(conn.receiving_chain_key)[1] = "hkdf"
          /\ ChainOrigin(conn.receiving_chain_key)[4] = "dh_ratchet_receiving"

\* the messages client c sent, to whatever peer, each with its place
SentBy(c) == {<<p, i>> : p \in Names, i \in 1..MaxSend} \cap
             {pi \in Names \X (1..MaxSend) : pi[2] <= Len(sent[c][pi[1]])}

\* the encryptions client c made: (key, IV) of each message and each escrow
EncryptionsBy(c) ==
    {<<pi, "message", sent[c][pi[1]][pi[2]].message.ciphertext[1].key,
        sent[c][pi[1]][pi[2]].message.ciphertext[1].iv>> : pi \in SentBy(c)}
    \cup
    {<<pi, "escrow", sent[c][pi[1]][pi[2]].message.header.c_gov[1].key,
        sent[c][pi[1]][pi[2]].message.header.c_gov[1].iv>> : pi \in SentBy(c)}

\* C28: the message is encrypted under the header's receiver_iv and the
\* escrow ciphertext under the header's iv_gov; the IVs of all encryptions a
\* client made, two for each message sent, are pairwise different, so no
\* (key, IV) pair occurs twice, the escrow key being the same every time
C28_FreshIVs ==
    \A c \in Clients :
       /\ \A pi \in SentBy(c) :
             LET message == sent[c][pi[1]][pi[2]].message
             IN /\ message.ciphertext[1].iv = message.header.receiver_iv
                /\ message.header.c_gov[1].iv = message.header.iv_gov
                /\ message.header.receiver_iv # message.header.iv_gov
       /\ Cardinality({e[4] : e \in EncryptionsBy(c)}) = 2 * Cardinality(SentBy(c))
       /\ Cardinality({<<e[3], e[4]>> : e \in EncryptionsBy(c)}) = 2 * Cardinality(SentBy(c))
       /\ Cardinality({e[3] : e \in {f \in EncryptionsBy(c) : f[2] = "escrow"}}) <= 1

\* a client sent messages to two peers: four encryptions under the one
\* escrow key, each with an IV of its own
C28_Witness ==
    \E c \in Clients :
       /\ \E p \in Names : \E q \in Names \ {p} :
             Len(sent[c][p]) >= 2 /\ Len(sent[c][q]) >= 2
       /\ Cardinality({e[4] : e \in {f \in EncryptionsBy(c) : f[2] = "escrow"}}) >= 4
       /\ Cardinality({e[3] : e \in {f \in EncryptionsBy(c) : f[2] = "escrow"}}) = 1

\* C29: when receive_certificate accepts a certificate for a username the
\* store holds another certificate for, the store holds the later one under
\* that username afterwards, and the same usernames with the same
\* certificates otherwise
C29_LastWriteWins ==
    [][ \A c \in Clients : \A u \in DOMAIN certs[c] :
          ( /\ lastOp'.op = "receive_certificate" /\ lastOp'.error = ""
            /\ lastOp'.client = c /\ lastOp'.name = u
            /\ lastOp'.info.certificate.username = u
            /\ lastOp'.info.certificate # certs[c][u] )
          => /\ DOMAIN certs'[c] = DOMAIN certs[c]
             /\ certs'[c][u] = lastOp'.info.certificate
             /\ \A v \in DOMAIN certs[c] \ {u} : certs'[c][v] = certs[c][v]
             /\ \A d \in Clients \ {c} : certs'[d] = certs[d]
      ]_vars

\* a client that held certificates for two usernames accepted the renewed
\* certificate of one of them, which replaced the one on file
C29_Witness ==
    /\ lastOp.op = "receive_certificate" /\ lastOp.error = ""
    /\ lastOp.info.certificate \in RenewedCertificates
    /\ certs[lastOp.client][lastOp.name] = lastOp.info.certificate
    /\ Cardinality(DOMAIN certs[lastOp.client]) = 2
    /\ \E v \in DOMAIN certs[lastOp.client] \ {lastOp.name} :
          certs[lastOp.client][v] = my_certificate[v]

\* the fields of a header
HeaderFieldNames ==
    {"dh_public_key", "prev_chain_length", "message_n", "receiver_iv",
     "v_gov", "c_gov", "iv_gov"}

\* every header sent has the seven fields and names the sender's identity key
IdentityInHeader ==
    \A c \in Clients : \A p \in Names :
       \A i \in 1..Len(sent[c][p]) :
          LET header == sent[c][p][i].message.header
          IN /\ DOMAIN header = HeaderFieldNames
             /\ header.v_gov = my_keys[c].public
             /\ header.v_gov = my_certificate[c].public_key

\* C30: the header of every message sent has exactly the fields
\* dh_public_key, prev_chain_length, message_n, receiver_iv, v_gov, c_gov and
\* iv_gov; dh_public_key is the public key of the session's ratchet key pair
\* as the send left it (after the DH ratchet when the send ran it), and
\* v_gov is the sender's identity public key, the one in its certificate
C30_HeaderFields ==
    [][ /\ \A c \in Clients : \A p \in Names :
             ( /\ lastOp'.op = "send_message" /\ lastOp'.error = ""
               /\ lastOp'.client = c /\ lastOp'.name = p )
             => LET header == sent'[c][p][Len(sent'[c][p])].message.header
                IN /\ header.dh_public_key = conns'[c][p].my_dh_public_key
                   /\ PrivateKey(header.dh_public_key[2]) = conns'[c][p].my_dh_private_key
                   /\ ( p \in DOMAIN conns[c] /\ ~conns[c][p].need_ratchet )
                      => header.dh_public_key = conns[c][p].my_dh_public_key
        /\ IdentityInHeader' ]_vars

\* a message went out after a DH ratchet: its header names the new ratchet
\* key, not that of the message before, and the identity key as v_gov
C30_Witness ==
    /\ lastOp.op = "send_message" /\ lastOp.error = "" /\ lastOp.info.ratcheted
    /\ LET s == sent[lastOp.client][lastOp.name]
           header == s[Len(s)].message.header
       IN /\ Len(s) >= 2
          /\ DOMAIN header = HeaderFieldNames
          /\ header.dh_public_key = conns[lastOp.client][lastOp.name].my_dh_public_key
          /\ header.dh_public_key # s[Len(s) - 1].message.header.dh_public_key
          /\ header.v_gov = my_certificate[lastOp.client].public_key

\* the escrow key of client c, from its identity key and the government's
EscrowKey(c) ==
    hmac_to_aes_key(compute_dh(my_keys[c].private, gov_public_key),
                    gov_encryption_data_str)

\* the keys the escrow ciphertexts of client c were encrypted under
EscrowKeysUsed(c) ==
    {sent[c][pi[1]][pi[2]].message.header.c_gov[1].key : pi \in SentBy(c)}

\* C31: the key under which send_message encrypts the escrow ciphertext is
\* derived from DH(identity private key, government public key) alone: every
\* message of a client, to whatever peer and in whatever sending chain, has
\* its escrow ciphertext under that one key
C31_StaticEscrowKey ==
    \A c \in Clients : \A key \in EscrowKeysUsed(c) : key = EscrowKey(c)

\* a client sent to two peers, to one of them in two chains with a DH
\* ratchet between, and in one chain twice: one escrow key all along
C31_Witness ==
    \E c \in Clients : \E p \in Names : \E q \in Names \ {p} :
       /\ Len(sent[c][p]) >= 2 /\ Len(sent[c][q]) >= 2
       /\ sent[c][p][2].message.header.dh_public_key
             # sent[c][p][1].message.header.dh_public_key
       /\ sent[c][q][2].message.header.dh_public_key
             = sent[c][q][1].message.header.dh_public_key
       /\ \A key \in EscrowKeysUsed(c) : key = EscrowKey(c)

\* C32: a session that receive_message creates has a ratchet key pair drawn
\* anew by generate_eg (not the identity key pair), root_key = DH(identity
\* private key, public key of the peer's certificate), message_n = 0, a
\* receiving_chain_key derived under "receiving_chain_init", and the header's
\* dh_public_key as their_dh_public_key, so that call runs no receiving DH
\* ratchet; their_message_n is -1 and need_ratchet clear until the call
\* decodes its message
C32_ReceivingSessionInit ==
    [][ \A c \in Clients : \A p \in Names \ DOMAIN conns[c] :
          ( /\ lastOp'.op = "receive_message"
            /\ lastOp'.client = c /\ lastOp'.name = p
            /\ p \in DOMAIN conns'[c] )
          => LET new == conns'[c][p]
                 shared == compute_dh(my_keys[c].private, certs[c][p].public_key)
                 origin == ChainOrigin(new.receiving_chain_key)
             IN /\ new.my_dh_public_key = generate_eg(c).public
                /\ new.my_dh_private_key = generate_eg(c).private
                /\ new.my_dh_public_key # my_keys[c].public
                /\ keys_drawn'[c] = keys_drawn[c] + 1
                /\ new.root_key = shared
                /\ new.message_n = 0
                /\ new.prev_chain_length = 0
                /\ origin[1] = "hkdf" /\ origin[2] = shared
                /\ origin[4] = "receiving_chain_init" /\ origin[5] = 2
                /\ new.their_dh_public_key = lastOp'.info.dh_public_key
                /\ ~lastOp'.info.ratcheted
                /\ new.their_message_n = (IF lastOp'.error = "" THEN 0 ELSE -1)
                /\ new.need_ratchet = (lastOp'.error = "")
      ]_vars

\* C33: a session that send_message creates has a ratchet key pair drawn
\* anew by generate_eg, not the identity key pair, root_key = DH(identity
\* private key, public key of the peer's certificate), a sending_chain_key
\* derived under "sending_chain_init" (one hash-ratchet step on when the
\* send returns), their_message_n = -1, need_ratchet clear, no
\* their_dh_public_key and no receiving_chain_key; the header of that first
\* send carries message_n = 0, prev_chain_length = 0 and the new ratchet
\* public key, and leaves message_n = 1
C33_SendingSessionInit ==
    [][ \A c \in Clients : \A p \in Names \ DOMAIN conns[c] :
          ( /\ lastOp'.op = "send_message"
            /\ lastOp'.client = c /\ lastOp'.name = p
            /\ p \in DOMAIN conns'[c] )
          => LET new == conns'[c][p]
                 shared == compute_dh(my_keys[c].private, certs[c][p].public_key)
                 origin == ChainOrigin(new.sending_chain_key)
                 header == sent'[c][p][1].message.header
             IN /\ new.my_dh_public_key = generate_eg(c).public
                /\ new.my_dh_private_key = generate_eg(c).private
                /\ new.my_dh_public_key # my_keys[c].public
                /\ new.my_dh_private_key # my_keys[c].private
                /\ keys_drawn'[c] = keys_drawn[c] + 1
                /\ new.root_key = shared
                /\ origin[1] = "hkdf" /\ origin[2] = shared
                /\ origin[4] = "sending_chain_init" /\ origin[5] = 1
                /\ new.sending_chain_key = hmac_to_hmac_key(origin, "next_chain_key")
                /\ new.receiving_chain_key = None
                /\ new.their_dh_public_key = None
                /\ new.their_message_n = -1
                /\ ~new.need_ratchet
                /\ new.prev_chain_length = 0
                /\ new.message_n = 1
                /\ lastOp'.error = ""
                /\ Len(sent'[c][p]) = 1
                /\ header.message_n = 0
                /\ header.prev_chain_length = 0
                /\ header.dh_public_key = new.my_dh_public_key
      ]_vars

\* the first send to a peer returned: the session holds a ratchet key pair
\* of its own and the header names its public key
C33_Witness ==
    /\ lastOp.op = "send_message" /\ lastOp.error = ""
    /\ LET conn == conns[lastOp.client][lastOp.name]
           s == sent[lastOp.client][lastOp.name]
       IN /\ Len(s) = 1
          /\ conn.message_n = 1
          /\ conn.their_dh_public_key = None
          /\ conn.root_key[1] = "dh"
          /\ conn.my_dh_public_key # my_keys[lastOp.client].public
          /\ s[1].message.header.dh_public_key = conn.my_dh_public_key
          /\ s[1].message.header.message_n = 0

\* the hash-ratchet step as the specification states it
hash_ratchet_step(chain_key) ==
    << <<"hmac", chain_key, "message_key">>, <<"hmac", chain_key, "next_chain_key">> >>

\* on every chain key a session holds the two chain functions give the same
\* pair, that of the stated step
SameStepBothChains ==
    \A c \in Clients : \A p \in DOMAIN conns[c] : \A key \in ChainKeys(conns[c][p]) :
       /\ ratchet_sending_chain(key) = hash_ratchet_step(key)
       /\ ratchet_receiving_chain(key) = hash_ratchet_step(key)

\* C34: _ratchet_sending_chain(k) and _ratchet_receiving_chain(k) both
\* return (HMAC(k, "message_key"), HMAC(k, "next_chain_key")) for every chain
\* key k a session holds, and a send_message that returns applies the step
\* exactly once to the chain key it found (that of the new chain when the
\* call created the session or ran the DH ratchet): the message is encrypted
\* under the AES key of the step's message key and the step's next chain key
\* is stored
C34_HashRatchetStep ==
    [][ /\ \A c \in Clients : \A p \in Names :
             ( /\ lastOp'.op = "send_message" /\ lastOp'.error = ""
               /\ lastOp'.client = c /\ lastOp'.name = p )
             => LET new == conns'[c][p]
                    found == IF p \in DOMAIN conns[c] /\ ~conns[c][p].need_ratchet
                             THEN conns[c][p].sending_chain_key
                             ELSE ChainOrigin(new.sending_chain_key)
                    message == sent'[c][p][Len(sent'[c][p])].message
                IN /\ found # None
                   /\ new.sending_chain_key = hash_ratchet_step(found)[2]
                   /\ message.ciphertext[1].key
                         = hmac_to_aes_key(hash_ratchet_step(found)[1], "encrypt")
        /\ SameStepBothChains' ]_vars

\* a session that holds a receiving chain key sent twice in one chain: its
\* sending chain key is two steps from the key the chain started with
C34_Witness ==
    /\ lastOp.op = "send_message" /\ lastOp.error = "" /\ ~lastOp.info.ratcheted
    /\ LET conn == conns[lastOp.client][lastOp.name]
       IN /\ conn.receiving_chain_key # None
          /\ ChainSteps(conn.sending_chain_key) = 2
          /\ conn.sending_chain_key
                = hash_ratchet_step(hash_ratchet_step(ChainOrigin(conn.sending_chain_key))[2])[2]
          /\ ratchet_receiving_chain(conn.receiving_chain_key)
                = hash_ratchet_step(conn.receiving_chain_key)
====
